---- MODULE Spec2Model ----
(***************************************************************************)
(* Order-fulfilment handlers of myname-world: the webhook intake variants, *)
(* the spreadsheet used as the order store, and the cron-triggered queue   *)
(* worker.  Every await of an external call (spreadsheet, blob store,      *)
(* renderer, mail) is one step of an invocation; the synchronous code      *)
(* between two awaits belongs to the step that precedes it.                *)
(***************************************************************************)
EXTENDS Integers, Sequences, FiniteSets, TLC

\* ---------------------------------------------------------------- bounds
\* Invocations (webhook deliveries and worker runs) started in one run in
\* which one invocation ends before the next starts.
MaxInvocations == 3

\* Invocations started in one run in which invocations may overlap.
MaxOverlapInvocations == 2

\* Handler invocations that may be in flight at once.
Procs == {"a", "b"}

\* ---------------------------------------------------------------- values
SessionIds == {"cs_1", "cs_2"}
COMPLETED == "checkout.session.completed"

\* The intake variants of the repository; one is deployed at /api/webhook.
Variants == {"probe", "log", "queue", "inline", "debug"}

\* The customer email of a checkout session; "" stands for an absent field.
EmailOf(sid) == IF sid = "cs_1" THEN "a@x" ELSE "b@x"

\* Events a delivery can carry to the deployed variant v.  sig is the state
\* of the stripe-signature header.  A field the variant does not read, or
\* does not reach for that event, is fixed; only the variants that check
\* for a missing id, email or payment status get events without one.
CompletedEvents(v) ==
    {[sig |-> g, type |-> COMPLETED, sid |-> s, email |-> m, pay |-> y] :
        g \in {"absent", "bad", "ok"},
        s \in SessionIds \cup (IF v \in {"queue", "log"} THEN {""} ELSE {}),
        m \in {"a@x", "b@x"} \cup (IF v = "queue" THEN {""} ELSE {}),
        y \in {"paid"} \cup (IF v = "queue" THEN {"", "unpaid"} ELSE {})}

Events(v) ==
    {e \in CompletedEvents(v) :
        /\ e.email \in {"", EmailOf(e.sid)}
        /\ (e.sig # "ok" /\ v # "log") =>
               (e.sid = "cs_1" /\ e.email = "a@x" /\ e.pay = "paid")
        /\ v = "probe" => e.sid = "cs_1"}
    \cup [sig : {"absent", "bad", "ok"}, type : {"payment_intent.succeeded"},
          sid : {"cs_1"}, email : {"a@x"}, pay : {"paid"}]

\* The method of a request; Stripe delivers by POST.
Methods == {"POST", "GET", "PUT"}

\* What a request that is not a POST carries, for the variant that reads
\* it: a session's completed checkout, signed or without a signature.
NonPostEvents ==
    [sig : {"absent", "ok"}, type : {COMPLETED}, sid : {"cs_1"},
     email : {"a@x"}, pay : {"paid"}]

NoEvent == [sig |-> "absent", type |-> "", sid |-> "", email |-> "", pay |-> ""]

\* An argument or a field that is left out (undefined).
Undefined == "undefined"

\* The versions of generateNamePNG in the repository, by file and line of
\* the statement that chooses the text.
Generators ==
    {"part_001:167", "part_002:150", "part_003:117", "part_003:430",
     "part_003:438"}

\* The metadata fields chinese_name and english_name of a session.
NameInputs == {Undefined, "", " ", "Li", " Li "}

\* No helper is being called on its own.
NoCall ==
    [fn |-> "", gen |-> "", cn |-> "", en |-> "", done |-> FALSE,
     drawnCn |-> "", drawnEn |-> "", values |-> <<>>, sessionId |-> "",
     rowIndex |-> 0]

\* The most rows after the header in the column A a lookup is called on.
MaxFindRows == 3

\* First cells of column A: the header's text, ids, an id with blanks
\* around it, and an empty cell.
ColumnACells == {"", "cs_1", " cs_1 ", "cs_2", "session_id"}

\* The session ids a lookup is called with.
FindIds == {Undefined, "", "cs_1", " cs_1 ", "cs_2", "session_id"}

\* The worker's ?limit= query parameter: absent, or the text of a number.
LimitInputs == {"absent", "0", "-1", "1", "11", "abc"}

\* CRON_SECRET as the serving instance loaded it ("" when not configured)
\* and the authorization header of a worker request ("" when absent).
\* req.query.dry: absent, "1", or another text.
DryInputs == {"absent", "1", "true"}

CronSecrets == {"", "s3cret"}
AuthHeaders == {"", "Bearer s3cret", "Bearer other"}

VARIABLES
    rows,       \* sheet orders_state, row 1 the header: the order store
    orders,     \* sheet Orders of the logging variant (session_id column)
    deployed,   \* the intake variant deployed
    overlap,    \* whether invocations may overlap in this run
    faults,     \* whether spreadsheet calls may fail in this run
    inv,        \* the invocations in flight: locals and position of each
    started,    \* invocations started so far
    call        \* a call of a helper on its own: arguments and result

vars == <<rows, orders, deployed, overlap, faults, call, inv, started>>

\* ---------------------------------------------------------------- helpers
\* String.prototype.trim on the cell and field values of the model.
Trim(s) ==
    CASE s \in {"", " "} -> ""
      [] s = " Li " -> "Li"
      [] s = " cs_1 " -> "cs_1"
      [] OTHER -> s

\* norm(s): String(s || "").trim()
norm(s) == Trim(s)

\* normStatus(s): String(s || "").trim().toLowerCase()
normStatus(s) == IF Trim(s) = "QUEUED" THEN "queued" ELSE Trim(s)

Header == [sid |-> "session_id", email |-> "email", status |-> "status",
           error |-> "error", png |-> "png_url", seen |-> 0, claims |-> 0,
           mails |-> 0, created |-> 0]

\* A row appended without the customer email.
NewRowNoEmail(sid, email, status, seen) ==
    [sid |-> sid, email |-> "", status |-> status, error |-> "",
     png |-> "", seen |-> seen, claims |-> 0, mails |-> 0,
     created |-> started]

\* A row appended with the session's payment status in the status cell.
NewRowPaymentStatus(sid, email, status, seen) ==
    [sid |-> sid, email |-> email, status |-> "paid", error |-> "",
     png |-> "", seen |-> seen, claims |-> 0, mails |-> 0,
     created |-> started]

\* A new row: appendOrderRow / appendRow write id, email, status, the two
\* timestamps and an empty error; png_url starts empty.  seen is history:
\* how many sheet rows the appender's lookup had read; claims is history:
\* how many times a worker has marked the row "processing"; mails is
\* history: how many delivery emails a worker has sent for the row.
\* created_at is the time of the append, told in invocations started.
NewRow(sid, email, status, seen) ==
    [sid |-> sid, email |-> email, status |-> status, error |-> "",
     png |-> "", seen |-> seen, claims |-> 0, mails |-> 0,
     created |-> started]

Min(a, b) == IF a < b THEN a ELSE b
Max(a, b) == IF a > b THEN a ELSE b

\* Rows 2..Len whose trimmed first cell is the id, as sheet row numbers.
Matches(values, sessionId) ==
    {i \in 2..Len(values) : Trim(values[i].sid) = sessionId}

\* A scan that starts one row late.
findRowIndexFromThirdRow(values, sessionId) ==
    LET m == {i \in 3..Len(values) : Trim(values[i].sid) = sessionId}
    IN  IF sessionId = Undefined \/ m = {} THEN 0
        ELSE CHOOSE i \in m : \A j \in m : i <= j

\* A lookup that takes the row it looks for to be the last of the sheet.
findRowIndexLastRow(values, sessionId) ==
    LET m == {i \in 2..Len(values) : Trim(values[i].sid) = sessionId}
    IN  IF sessionId = Undefined \/ m = {} THEN 0 ELSE Len(values)

\* A scan that starts at the header.
findRowIndexFromHeader(values, sessionId) ==
    LET m == {i \in 1..Len(values) : Trim(values[i].sid) = sessionId}
    IN  IF sessionId = Undefined \/ m = {} THEN 0
        ELSE CHOOSE i \in m : \A j \in m : i <= j

\* findRowIndexBySessionId: the 1-based sheet row of the first row after the
\* header whose trimmed first cell equals the id; 0 stands for null.  An
\* absent id (undefined) equals no cell.
findRowIndexBySessionId(values, sessionId) ==
    IF sessionId = Undefined \/ Matches(values, sessionId) = {} THEN 0
    ELSE CHOOSE i \in Matches(values, sessionId) :
             \A j \in Matches(values, sessionId) : i <= j

\* Outcomes of one spreadsheet call.
StoreOutcomes == IF faults THEN {TRUE, FALSE} ELSE {TRUE}

\* ---------------------------------------------------------------- state
Idle ==
    [kind |-> "idle", pc |-> "idle", ev |-> NoEvent, row |-> 0, st |-> "",
     err |-> "", png |-> "", resp |-> 0, len0 |-> 0, st0 |-> "",
     saw |-> 0, made |-> "", wrote |-> 0, rendered |-> 0, uploaded |-> 0,
     q |-> "", picked |-> <<>>, job |-> 0, processed |-> 0, failed |-> 0,
     mailed |-> FALSE, claimed |-> FALSE, dry |-> FALSE, method |-> "",
     secret |-> "",
     auth |-> "",
     results |-> <<>>]

InitStore ==
    /\ rows = <<Header>>
    /\ orders = <<>>
    /\ deployed \in Variants
    /\ inv = [p \in Procs |-> Idle]
    /\ started = 0
    /\ call = NoCall

\* One invocation at a time, spreadsheet calls succeed.
Init == InitStore /\ overlap = FALSE /\ faults = FALSE

\* Overlapping invocations, spreadsheet calls succeed.
InitOverlap == InitStore /\ overlap = TRUE /\ faults = FALSE

\* One invocation at a time, spreadsheet calls may fail.
InitFaults == InitStore /\ overlap = FALSE /\ faults = TRUE

\* Overlapping invocations over a store in which the queue intake has
\* already enqueued one order.
InitQueued ==
    /\ deployed \in Variants
    /\ started = 0
    /\ rows = IF deployed = "queue"
              THEN <<Header, NewRow("cs_1", EmailOf("cs_1"), "queued", 1)>>
              ELSE <<Header>>
    /\ orders = <<>>
    /\ inv = [p \in Procs |-> Idle]
    /\ overlap = TRUE
    /\ faults = FALSE
    /\ call = NoCall

\* A row a worker run has left behind: claimed once, then delivered with
\* its URL and its email sent, failed on the renderer's answer, or still
\* "processing" when the renderer never answered.
WorkedRow(sid, status) ==
    [NewRow(sid, EmailOf(sid), status, 1) EXCEPT
        !.claims = 1,
        !.error = IF status = "failed" THEN "Renderer failed" ELSE "",
        !.png = IF status = "delivered" THEN "blob:" \o sid ELSE "",
        !.mails = IF status = "delivered" THEN 1 ELSE 0]

\* One invocation at a time, spreadsheet calls may fail, over a store the
\* queue intake and the worker have already used: it holds one order,
\* queued or worked.
InitInUse ==
    /\ deployed \in Variants
    /\ started = 0
    /\ rows \in IF deployed = "queue"
                THEN {<<Header, NewRow("cs_1", EmailOf("cs_1"), "queued", 1)>>}
                     \cup {<<Header, WorkedRow("cs_2", st)>> :
                              st \in {"processing", "delivered", "failed"}}
                ELSE {<<Header>>}
    /\ orders = <<>>
    /\ inv = [p \in Procs |-> Idle]
    /\ overlap = FALSE
    /\ faults = TRUE
    /\ call = NoCall

\* The rows of the order store that hold session id s (history).
OrderRows(s) == {i \in 2..Len(rows) : rows[i].sid = s}

\* The first of them; 0 when there is none.
OrderRow(s) ==
    IF OrderRows(s) = {} THEN 0
    ELSE CHOOSE i \in OrderRows(s) : \A j \in OrderRows(s) : i <= j

\* The status of the order of session id s as the store holds it; "none"
\* when it has no row (history).
StatusOf(s) == IF OrderRow(s) = 0 THEN "none" ELSE rows[OrderRow(s)].status

CanStart(p) ==
    /\ inv[p].kind = "idle"
    /\ started < (IF overlap THEN MaxOverlapInvocations ELSE MaxInvocations)
    /\ overlap \/ \A q \in Procs : inv[q].kind = "idle"

\* The locals of a webhook invocation that carries event e.
Fresh(e) ==
    [Idle EXCEPT !.kind = "webhook", !.ev = e, !.len0 = Len(rows),
                 !.st0 = StatusOf(e.sid)]

Finish(l, code) == [l EXCEPT !.pc = "done", !.resp = code]
Crash(l) == [l EXCEPT !.pc = "crashed"]

\* The first statement of an intake handler: 0 when the request goes on.
\* The probe answers GET with its liveness body and every other method but
\* POST with 405 (its two stubs answer 405 to GET as well); the logger, the
\* inline and the debug handlers answer 405 to every method but POST; the
\* queue intake does not read req.method.
MethodGate(v, m) ==
    IF v = "queue" THEN 0
    ELSE IF v = "probe" /\ m = "GET" THEN 200
    ELSE IF m # "POST" THEN 405
    ELSE 0

\* The requests that reach the deployed variant.
Carries(m, e) == m = "POST" \/ e \in NonPostEvents

\* The locals of an intake invocation after its method gate: l when the
\* request goes on, else the answer of the gate with nothing of the
\* request read.
Arrive(m, l) ==
    IF MethodGate(deployed, m) # 0
    THEN Finish([Fresh(NoEvent) EXCEPT !.method = m], MethodGate(deployed, m))
    ELSE [l EXCEPT !.method = m]

\* ------------------------------------------------- intake: signature gate
\* stripe.webhooks.constructEvent: the header must be present and verify.
Verified(e) == e.sig = "ok"

\* ------------------------------------------- intake: verify-only variants
\* handler of the probe variant (and of the two stubs that only log):
\* 400 without a valid signature, 200 otherwise; no store is touched.
handlerProbe(p) ==
    /\ deployed = "probe"
    /\ CanStart(p)
    /\ \E m \in Methods, e \in Events(deployed) :
         /\ Carries(m, e)
         /\ inv' = [inv EXCEPT ![p] =
                       Arrive(m, IF ~Verified(e) THEN Finish(Fresh(e), 400)
                                 ELSE Finish(Fresh(e), 200))]
    /\ started' = started + 1
    /\ UNCHANGED <<rows, orders, deployed, overlap, faults, call>>

\* ------------------------------------------------ intake: logging variant
\* handler of the Orders logger: the body is taken as parsed, no signature
\* is verified; a completed checkout goes on to append a row.
handlerLog(p) ==
    /\ deployed = "log"
    /\ CanStart(p)
    /\ \E m \in Methods, e \in Events(deployed) :
         /\ Carries(m, e)
         /\ inv' = [inv EXCEPT ![p] =
                       Arrive(m, IF e.type # COMPLETED
                                 THEN Finish(Fresh(e), 200)
                                 ELSE [Fresh(e) EXCEPT !.pc = "log_append"])]
    /\ started' = started + 1
    /\ UNCHANGED <<rows, orders, deployed, overlap, faults, call>>

\* appendOrderRow of the logger, unconditional; a failure is logged and
\* answered 200 all the same.
logAppend(p) ==
    /\ inv[p].pc = "log_append"
    /\ \E ok \in StoreOutcomes :
         IF ok
         THEN /\ orders' = Append(orders, inv[p].ev.sid)
              /\ inv' = [inv EXCEPT ![p] =
                            Finish([@ EXCEPT !.wrote = @ + 1], 200)]
         ELSE /\ orders' = orders
              /\ inv' = [inv EXCEPT ![p] = Finish(@, 200)]
    /\ UNCHANGED <<rows, deployed, overlap, faults, call, started>>

\* -------------------------------------------------- intake: queue variant
\* handler of the queue intake up to its first spreadsheet call.
QueueGate(e) ==
    IF ~Verified(e) THEN 400
    ELSE IF e.type # COMPLETED THEN 200
    ELSE IF norm(e.pay) # "" /\ norm(e.pay) # "paid" THEN 200
    ELSE IF norm(e.sid) = "" THEN 400
    ELSE IF norm(e.email) = "" THEN 200
    ELSE 0

handlerQueue(p) ==
    /\ deployed = "queue"
    /\ CanStart(p)
    /\ \E m \in Methods, e \in Events(deployed) :
         /\ Carries(m, e)
         /\ inv' = [inv EXCEPT ![p] =
                       Arrive(m, IF QueueGate(e) # 0
                                 THEN Finish(Fresh(e), QueueGate(e))
                                 ELSE [Fresh(e) EXCEPT !.pc = "q_read"])]
    /\ started' = started + 1
    /\ UNCHANGED <<rows, orders, deployed, overlap, faults, call>>

\* readAllRows and the scan for the session id: an existing row ends the
\* handler ("already exists, do nothing").
queueRead(p) ==
    /\ inv[p].pc = "q_read"
    /\ \E ok \in StoreOutcomes :
         inv' = [inv EXCEPT ![p] =
                    IF ~ok THEN Finish(@, 200)
                    ELSE IF findRowIndexBySessionId(rows, norm(inv[p].ev.sid)) # 0
                    THEN Finish([@ EXCEPT
                                   !.row = findRowIndexBySessionId(rows, norm(inv[p].ev.sid)),
                                   !.saw = Len(rows)], 200)
                    ELSE [@ EXCEPT !.pc = "q_append", !.saw = Len(rows)]]
    /\ UNCHANGED <<rows, orders, deployed, overlap, faults, call, started>>

\* appendRow [sessionId, email, "queued", t, t, "", ""].
queueAppend(p) ==
    /\ inv[p].pc = "q_append"
    /\ \E ok \in StoreOutcomes :
         IF ok
         THEN /\ rows' = Append(rows, NewRow(norm(inv[p].ev.sid),
                                 norm(inv[p].ev.email), "queued", inv[p].saw))
              /\ inv' = [inv EXCEPT ![p] =
                            Finish([@ EXCEPT !.wrote = @ + 1,
                                             !.made = rows'[Len(rows')].status],
                                   200)]
         ELSE /\ rows' = rows
              /\ inv' = [inv EXCEPT ![p] = Finish(@, 200)]
    /\ UNCHANGED <<orders, deployed, overlap, faults, call, started>>

\* ------------------------------------------- intake: inline fulfilment
\* Render and upload outcomes of one inline fulfilment.  msg is the thrown
\* error's message, which may be empty.
RenderOutcomes ==
    {[render |-> TRUE,  upload |-> TRUE,  msg |-> ""],
     [render |-> FALSE, upload |-> FALSE, msg |-> "Font missing"],
     [render |-> FALSE, upload |-> FALSE, msg |-> ""],
     [render |-> TRUE,  upload |-> FALSE, msg |-> "blob put failed"]}

BlobUrl(sid) == "blob:" \o sid

\* The message recorded without the fallback.
ErrorTextRaw(msg) == msg

\* err?.message || "unknown_error"
ErrorText(msg) == IF msg = "" THEN "unknown_error" ELSE msg

SkipDeliveredOnly == {"delivered"}
SkipAlsoFailed == {"delivered", "processing", "failed"}

\* The statuses on which the inline handler acknowledges a duplicate
\* without reprocessing.
SkipStatuses == {"delivered", "processing"}

\* The debug variants read the status for the log only and always go on.
SkipsOn(status) ==
    /\ deployed = "inline"
    /\ status \in SkipStatuses

\* The gate without the event-type filter.
InlineGateAnyType(e) == IF ~Verified(e) THEN 400 ELSE 0

\* handler of the inline and debug variants up to the first spreadsheet
\* call.
InlineGate(e) ==
    IF ~Verified(e) THEN 400
    ELSE IF e.type # COMPLETED THEN 200
    ELSE 0

handlerInline(p) ==
    /\ deployed \in {"inline", "debug"}
    /\ CanStart(p)
    /\ \E m \in Methods, e \in Events(deployed) :
         /\ Carries(m, e)
         /\ inv' = [inv EXCEPT ![p] =
                       Arrive(m, IF InlineGate(e) # 0
                                 THEN Finish(Fresh(e), InlineGate(e))
                                 ELSE [Fresh(e) EXCEPT !.pc = "find1"])]
    /\ started' = started + 1
    /\ UNCHANGED <<rows, orders, deployed, overlap, faults, call>>

\* The first findRowIndexBySessionId.  A failure here is outside every
\* try block: the invocation ends without a response.
inlineFind(p) ==
    /\ inv[p].pc = "find1"
    /\ \E ok \in StoreOutcomes :
         inv' = [inv EXCEPT ![p] =
                    IF ~ok THEN Crash(@)
                    ELSE [@ EXCEPT
                            !.row = findRowIndexBySessionId(rows, inv[p].ev.sid),
                            !.saw = Len(rows),
                            !.pc = IF findRowIndexBySessionId(rows, inv[p].ev.sid) # 0
                                   THEN "get_status" ELSE "append"]]
    /\ UNCHANGED <<rows, orders, deployed, overlap, faults, call, started>>

\* getStatusByRow and the duplicate check.
inlineGetStatus(p) ==
    /\ inv[p].pc = "get_status"
    /\ \E ok \in StoreOutcomes :
         inv' = [inv EXCEPT ![p] =
                    IF ~ok THEN Crash(@)
                    ELSE IF SkipsOn(rows[inv[p].row].status)
                    THEN Finish([@ EXCEPT !.st = rows[inv[p].row].status], 200)
                    ELSE [@ EXCEPT !.st = rows[inv[p].row].status, !.pc = "reset_C"]]
    /\ UNCHANGED <<rows, orders, deployed, overlap, faults, call, started>>

\* appendOrderRow {sessionId, email, status: "processing"}.
inlineAppend(p) ==
    /\ inv[p].pc = "append"
    /\ \E ok \in StoreOutcomes :
         IF ok
         THEN /\ rows' = Append(rows, NewRow(inv[p].ev.sid, inv[p].ev.email,
                                             "processing", inv[p].saw))
              /\ inv' = [inv EXCEPT ![p] =
                            [@ EXCEPT !.wrote = @ + 1, !.pc = "find2",
                                      !.made = rows'[Len(rows')].status]]
         ELSE /\ rows' = rows
              /\ inv' = [inv EXCEPT ![p] = Crash(@)]
    /\ UNCHANGED <<orders, deployed, overlap, faults, call, started>>

\* updateOrderStatus is three separate updates: the status cell, then
\* updated_at, then the error cell.  A row number of null (0) is no range
\* of the sheet: the call fails.
CellCallOk(l, ok) == ok /\ l.row # 0

\* updateOrderStatus(rowIndex, "processing", ""): the status cell.
inlineResetStatus(p) ==
    /\ inv[p].pc = "reset_C"
    /\ \E ok \in StoreOutcomes :
         IF CellCallOk(inv[p], ok)
         THEN /\ rows' = [rows EXCEPT ![inv[p].row].status = "processing"]
              /\ inv' = [inv EXCEPT ![p] =
                            [@ EXCEPT !.wrote = @ + 1, !.pc = "reset_F"]]
         ELSE /\ rows' = rows
              /\ inv' = [inv EXCEPT ![p] = Crash(@)]
    /\ UNCHANGED <<orders, deployed, overlap, faults, call, started>>

\* ... then updated_at and the error cell.  The inline variant looks the
\* row up again before it renders; the debug variants keep the row number.
inlineResetError(p) ==
    /\ inv[p].pc = "reset_F"
    /\ \E ok \in StoreOutcomes :
         IF CellCallOk(inv[p], ok)
         THEN /\ rows' = [rows EXCEPT ![inv[p].row].error = ""]
              /\ inv' = [inv EXCEPT ![p] =
                            [@ EXCEPT !.wrote = @ + 1,
                                      !.pc = IF deployed = "inline"
                                             THEN "find2" ELSE "render"]]
         ELSE /\ rows' = rows
              /\ inv' = [inv EXCEPT ![p] = Crash(@)]
    /\ UNCHANGED <<orders, deployed, overlap, faults, call, started>>

\* The second findRowIndexBySessionId, whose result the updates use.
inlineFindAgain(p) ==
    /\ inv[p].pc = "find2"
    /\ \E ok \in StoreOutcomes :
         inv' = [inv EXCEPT ![p] =
                    IF ~ok THEN Crash(@)
                    ELSE [@ EXCEPT
                            !.row = findRowIndexBySessionId(rows, inv[p].ev.sid),
                            !.pc = "render"]]
    /\ UNCHANGED <<rows, orders, deployed, overlap, faults, call, started>>

\* A handler that renders and uploads again after a throw.
AfterPutRetry(o) == IF o.upload THEN "deliver_C" ELSE "render"

\* Where the handler goes after generateNamePNG and put(): on to the
\* "delivered" update, or to the catch when either threw.
AfterPut(o) == IF o.upload THEN "deliver_C" ELSE "fail_C"

\* generateNamePNG, then put(): a throw of either goes to the catch.
\* rendered counts the calls of generateNamePNG, uploaded the calls of put
\* (history); png is the URL put returned.
inlineRenderUpload(p) ==
    /\ inv[p].pc = "render"
    /\ \E o \in RenderOutcomes :
         inv' = [inv EXCEPT ![p] =
                    [@ EXCEPT
                       !.rendered = @ + 1,
                       !.uploaded = IF o.render THEN @ + 1 ELSE @,
                       !.png = IF o.upload THEN BlobUrl(inv[p].ev.sid) ELSE "",
                       !.err = o.msg,
                       !.pc = AfterPut(o)]]
    /\ UNCHANGED <<rows, orders, deployed, overlap, faults, call, started>>

\* updateOrderStatus(rowIndex, "delivered", ""): a failure of a call is
\* thrown inside the try block.
inlineDeliverStatus(p) ==
    /\ inv[p].pc = "deliver_C"
    /\ \E ok \in StoreOutcomes :
         IF CellCallOk(inv[p], ok)
         THEN /\ rows' = [rows EXCEPT ![inv[p].row].status = "delivered"]
              /\ inv' = [inv EXCEPT ![p] =
                            [@ EXCEPT !.wrote = @ + 1, !.pc = "deliver_F"]]
         ELSE /\ rows' = rows
              /\ inv' = [inv EXCEPT ![p] =
                            [@ EXCEPT !.err = "sheet update failed",
                                      !.pc = "fail_C"]]
    /\ UNCHANGED <<orders, deployed, overlap, faults, call, started>>

inlineDeliverError(p) ==
    /\ inv[p].pc = "deliver_F"
    /\ \E ok \in StoreOutcomes :
         IF CellCallOk(inv[p], ok)
         THEN /\ rows' = [rows EXCEPT ![inv[p].row].error = ""]
              /\ inv' = [inv EXCEPT ![p] =
                            Finish([@ EXCEPT !.wrote = @ + 1], 200)]
         ELSE /\ rows' = rows
              /\ inv' = [inv EXCEPT ![p] =
                            [@ EXCEPT !.err = "sheet update failed",
                                      !.pc = "fail_C"]]
    /\ UNCHANGED <<orders, deployed, overlap, faults, call, started>>

\* The catch: updateOrderStatus(rowIndex, "failed", message), then 500.  A
\* failure of these updates is thrown out of the handler.
inlineFailStatus(p) ==
    /\ inv[p].pc = "fail_C"
    /\ \E ok \in StoreOutcomes :
         IF CellCallOk(inv[p], ok)
         THEN /\ rows' = [rows EXCEPT ![inv[p].row].status = "failed"]
              /\ inv' = [inv EXCEPT ![p] =
                            [@ EXCEPT !.wrote = @ + 1, !.pc = "fail_F"]]
         ELSE /\ rows' = rows
              /\ inv' = [inv EXCEPT ![p] = Crash(@)]
    /\ UNCHANGED <<orders, deployed, overlap, faults, call, started>>

inlineFailError(p) ==
    /\ inv[p].pc = "fail_F"
    /\ \E ok \in StoreOutcomes :
         IF CellCallOk(inv[p], ok)
         THEN /\ rows' = [rows EXCEPT ![inv[p].row].error = ErrorText(inv[p].err)]
              /\ inv' = [inv EXCEPT ![p] =
                            Finish([@ EXCEPT !.wrote = @ + 1], 500)]
         ELSE /\ rows' = rows
              /\ inv' = [inv EXCEPT ![p] = Crash(@)]
    /\ UNCHANGED <<orders, deployed, overlap, faults, call, started>>

\* ------------------------------------------------------------ the worker
\* Whether Number(q) is a number; any other text gives NaN.
IsNumber(q) == q \in {"absent", "", "0", "-1", "1", "11"}

\* Number(req.query.limit || 3), for a text that is a number.
NumberOf(q) ==
    CASE q \in {"absent", ""} -> 3
      [] q = "0" -> 0
      [] q = "-1" -> -1
      [] q = "1" -> 1
      [] q = "11" -> 11

\* Math.max(1, Math.min(10, n)), for a number; NaN stays NaN.
Limit(q) == Max(1, Min(10, NumberOf(q)))

\* A scan that takes every row with an id and an email, whatever its status.
QueuedFromAnyStatus(values, i) ==
    LET idx == {j \in i..Len(values) :
                   Trim(values[j].sid) # "" /\ Trim(values[j].email) # ""}
        nth(k) == CHOOSE j \in idx : Cardinality({h \in idx : h < j}) = k - 1
    IN  [k \in 1..Cardinality(idx) |->
            [rowIndex |-> nth(k), sessionId |-> Trim(values[nth(k)].sid),
             email |-> Trim(values[nth(k)].email),
             status0 |-> values[nth(k)].status,
             claims0 |-> values[nth(k)].claims]]

\* The scan of the worker: the rows after the header with an id, an email
\* and status "queued", in row order.  status0 and claims0 are history: the
\* row's status cell and claims when it was read.
RECURSIVE QueuedFrom(_, _)
QueuedFrom(values, i) ==
    IF i > Len(values) THEN <<>>
    ELSE IF Trim(values[i].sid) # "" /\ Trim(values[i].email) # ""
            /\ normStatus(values[i].status) = "queued"
         THEN <<[rowIndex |-> i, sessionId |-> Trim(values[i].sid),
                 email |-> Trim(values[i].email),
                 status0 |-> values[i].status,
                 claims0 |-> values[i].claims]>>
              \o QueuedFrom(values, i + 1)
         ELSE QueuedFrom(values, i + 1)

\* queued.slice(0, limit); a NaN limit slices nothing.
Picked(values, q) ==
    IF ~IsNumber(q) THEN <<>>
    ELSE SubSeq(QueuedFrom(values, 2), 1,
                Min(Limit(q), Len(QueuedFrom(values, 2))))

\* An update that takes the index of the row in the values read for the
\* row's sheet number: it writes one row higher.
updateRowCellsAbove(values, rowIndex, status, error, pngUrl) ==
    [values EXCEPT ![rowIndex - 1] =
        [@ EXCEPT !.status = status, !.error = error,
                  !.png = IF pngUrl = Undefined THEN @ ELSE pngUrl]]

\* An update that writes its cells from column A on.
updateRowCellsFromA(values, rowIndex, status, error, pngUrl) ==
    [values EXCEPT ![rowIndex] =
        [@ EXCEPT !.sid = status, !.email = error]]

\* updateRowCells: one batchUpdate of the cells C (status), E (updated_at),
\* F (error) and, when a pngUrl is given, G (png_url) of the row.
updateRowCells(values, rowIndex, status, error, pngUrl) ==
    [values EXCEPT ![rowIndex] =
        [@ EXCEPT !.status = status, !.error = error,
                  !.png = IF pngUrl = Undefined THEN @ ELSE pngUrl]]

\* Outcomes of callRenderer and of sendDeliveryEmail.
RendererOutcomes == {"ok", "http_error", "empty_url", "never"}
EmailOutcomes == {TRUE, FALSE}

RendererMessage(o) ==
    IF o = "empty_url" THEN "Renderer returned empty pngUrl"
    ELSE "Renderer failed"

\* err?.message ? String(err.message).slice(0, 500) : "unknown_error"
WorkerErrorText(msg) == IF msg = "" THEN "unknown_error" ELSE msg

Job(l) == l.picked[l.job]

\* A loop that a failed job ends: the 200 reports the jobs done so far.
NextJobUntilFailure(l, ok) ==
    LET r == [l EXCEPT !.results =
                 Append(@, [rowIndex |-> l.picked[l.job].rowIndex, ok |-> ok,
                            url |-> l.png, mailed |-> l.mailed,
                            claimed |-> l.claimed,
                            error |-> IF ok THEN "" ELSE l.err])]
    IN  IF ok /\ l.job < Len(l.picked)
        THEN [r EXCEPT !.job = @ + 1, !.pc = "w_claim", !.err = "", !.png = "",
                       !.mailed = FALSE, !.claimed = FALSE]
        ELSE [r EXCEPT !.pc = "done", !.resp = 200]

\* results.push({sessionId, rowIndex, ok, ...}), then the next job or the
\* 200 that reports the batch.  url is history: what the renderer returned
\* for the job ("" when it failed or was not called); mailed is history:
\* whether sendDeliveryEmail sent the job's email; claimed is history:
\* whether the job's "processing" update succeeded.
NextJob(l, ok) ==
    LET r == [l EXCEPT !.results =
                 Append(@, [rowIndex |-> Job(l).rowIndex, ok |-> ok,
                            url |-> l.png, mailed |-> l.mailed,
                            claimed |-> l.claimed,
                            error |-> IF ok THEN ""
                                      ELSE WorkerErrorText(l.err)])]
    IN  IF l.job < Len(l.picked)
        THEN [r EXCEPT !.job = @ + 1, !.pc = "w_claim", !.err = "", !.png = "",
                       !.mailed = FALSE, !.claimed = FALSE]
        ELSE Finish(r, 200)

\* Any header that starts with "Bearer " passes.
AuthorizedAnyBearer(secret, auth) == secret = "" \/ auth # ""

\* The bearer gate: with CRON_SECRET configured the authorization header
\* must be exactly "Bearer <CRON_SECRET>".
Authorized(secret, auth) == secret = "" \/ auth = "Bearer " \o secret

\* handler of the worker up to readAllRows: the gate answers 401 before the
\* query is read.
handlerWorker(p) ==
    /\ CanStart(p)
    /\ \E q \in LimitInputs, secret \in CronSecrets, auth \in AuthHeaders :
         inv' = [inv EXCEPT ![p] =
                    IF ~Authorized(secret, auth)
                    THEN Finish([Idle EXCEPT !.kind = "worker",
                                             !.secret = secret, !.auth = auth,
                                             !.len0 = Len(rows)], 401)
                    ELSE [Idle EXCEPT !.kind = "worker", !.pc = "w_read",
                                      !.secret = secret, !.auth = auth,
                                      !.q = q, !.len0 = Len(rows)]]
    /\ started' = started + 1
    /\ UNCHANGED <<rows, orders, deployed, overlap, faults, call>>

\* The request's inputs are not read after the slice.
Parsed(l) == [l EXCEPT !.q = "", !.secret = "", !.auth = ""]

\* A handler that does not read the dry parameter.
DryRunIgnored(d) == FALSE

\* String(req.query.dry || "0") === "1"
DryRun(d) == d = "1"

\* readAllRows, the scan and the slice; nothing picked answers 200, and a
\* dry run answers 200 with the rows picked (wouldProcess).  A failure
\* reaches the outer catch: 500.  dry is history: whether the request
\* carried dry=1.
workerRead(p) ==
    /\ inv[p].pc = "w_read"
    /\ \E ok \in StoreOutcomes, d \in DryInputs :
         inv' = [inv EXCEPT ![p] =
                    IF ~ok THEN Finish([Parsed(@) EXCEPT !.dry = (d = "1")], 500)
                    ELSE IF Picked(rows, inv[p].q) = <<>>
                    THEN Finish([Parsed(@) EXCEPT !.dry = (d = "1")], 200)
                    ELSE IF DryRun(d)
                    THEN Finish([Parsed(@) EXCEPT
                                    !.dry = (d = "1"),
                                    !.picked = Picked(rows, inv[p].q)], 200)
                    ELSE [Parsed(@) EXCEPT !.dry = (d = "1"),
                                           !.picked = Picked(rows, inv[p].q),
                                           !.job = 1, !.pc = "w_claim"]]
    /\ UNCHANGED <<rows, orders, deployed, overlap, faults, call, started>>

\* updateRowCells {status: "processing", updatedAt, error: ""}: one
\* batchUpdate.
workerClaim(p) ==
    /\ inv[p].pc = "w_claim"
    /\ \E ok \in StoreOutcomes :
         IF ok
         THEN /\ rows' = [updateRowCells(rows, Job(inv[p]).rowIndex,
                                           "processing", "", Undefined)
                            EXCEPT ![Job(inv[p]).rowIndex].claims = @ + 1]
              /\ inv' = [inv EXCEPT ![p] =
                            [@ EXCEPT !.wrote = @ + 1, !.claimed = TRUE,
                                      !.pc = "w_render"]]
         ELSE /\ rows' = rows
              /\ inv' = [inv EXCEPT ![p] =
                            [@ EXCEPT !.err = "sheet update failed",
                                      !.pc = "w_fail"]]
    /\ UNCHANGED <<orders, deployed, overlap, faults, call, started>>

\* callRenderer throws on a non-2xx answer only.
ThrowsOnHttpErrorOnly(o) == o = "http_error"

\* callRenderer throws on a non-2xx answer and on an answer without pngUrl.
Throws(o) == o \in {"http_error", "empty_url"}

\* The pngUrl callRenderer returns.
RendererUrl(o, sessionId) == IF o = "ok" THEN BlobUrl(sessionId) ELSE ""

\* callRenderer: a non-2xx answer or an empty pngUrl is thrown.  The fetch
\* carries no signal and no timer: when the renderer never answers, the
\* await never resumes ("w_hung") and the invocation ends only when the
\* platform ends it, without a response.
workerRender(p) ==
    /\ inv[p].pc = "w_render"
    /\ \E o \in RendererOutcomes :
         inv' = [inv EXCEPT ![p] =
                    IF o = "never"
                    THEN [@ EXCEPT !.rendered = @ + 1, !.pc = "w_hung"]
                    ELSE IF Throws(o)
                    THEN [@ EXCEPT !.rendered = @ + 1,
                                   !.err = RendererMessage(o),
                                   !.pc = "w_fail"]
                    ELSE [@ EXCEPT !.rendered = @ + 1,
                                   !.png = RendererUrl(
                                               o, Job(inv[p]).sessionId),
                                   !.pc = "w_email"]]
    /\ UNCHANGED <<rows, orders, deployed, overlap, faults, call, started>>

\* sendDeliveryEmail.
workerEmail(p) ==
    /\ inv[p].pc = "w_email"
    /\ \E sent \in EmailOutcomes :
         /\ inv' = [inv EXCEPT ![p] =
                    IF sent THEN [@ EXCEPT !.mailed = TRUE, !.pc = "w_deliver"]
                    ELSE [@ EXCEPT !.err = "Email failed", !.pc = "w_fail"]]
         /\ rows' = IF sent
                    THEN [rows EXCEPT ![Job(inv[p]).rowIndex].mails = @ + 1]
                    ELSE rows
    /\ UNCHANGED <<orders, deployed, overlap, faults, call, started>>

\* updateRowCells {status: "delivered", updatedAt, error: "", pngUrl}.
workerDeliver(p) ==
    /\ inv[p].pc = "w_deliver"
    /\ \E ok \in StoreOutcomes :
         IF ok
         THEN /\ rows' = updateRowCells(rows, Job(inv[p]).rowIndex,
                                          "delivered", "", inv[p].png)
              /\ inv' = [inv EXCEPT ![p] =
                            NextJob([@ EXCEPT !.wrote = @ + 1,
                                              !.processed = @ + 1], TRUE)]
         ELSE /\ rows' = rows
              /\ inv' = [inv EXCEPT ![p] =
                            [@ EXCEPT !.err = "sheet update failed",
                                      !.pc = "w_fail"]]
    /\ UNCHANGED <<orders, deployed, overlap, faults, call, started>>

\* A catch that puts the row back in the queue.
FailedStatusRequeued == "queued"

\* The status the job's catch writes.
FailedStatus == "failed"

\* The job's catch: updateRowCells {status: "failed", updatedAt, error};
\* a failure of this update is swallowed.
workerFail(p) ==
    /\ inv[p].pc = "w_fail"
    /\ \E ok \in StoreOutcomes :
         IF ok
         THEN /\ rows' = updateRowCells(rows, Job(inv[p]).rowIndex,
                                          FailedStatus,
                                          WorkerErrorText(inv[p].err),
                                          Undefined)
              /\ inv' = [inv EXCEPT ![p] =
                            NextJob([@ EXCEPT !.wrote = @ + 1,
                                              !.failed = @ + 1], FALSE)]
         ELSE /\ rows' = rows
              /\ inv' = [inv EXCEPT ![p] =
                            NextJob([@ EXCEPT !.failed = @ + 1], FALSE)]
    /\ UNCHANGED <<orders, deployed, overlap, faults, call, started>>

\* ------------------------------------------------------ the specification
\* The platform ends the invocation: its slot is free again.
Return(p) ==
    /\ inv[p].pc \in {"done", "crashed", "w_hung"}
    /\ inv' = [inv EXCEPT ![p] = Idle]
    /\ UNCHANGED <<rows, orders, deployed, overlap, faults, call, started>>

Next ==
    \E p \in Procs :
        \/ handlerProbe(p)
        \/ handlerLog(p)
        \/ logAppend(p)
        \/ handlerQueue(p)
        \/ queueRead(p)
        \/ queueAppend(p)
        \/ handlerInline(p)
        \/ inlineFind(p)
        \/ inlineGetStatus(p)
        \/ inlineAppend(p)
        \/ inlineResetStatus(p)
        \/ inlineResetError(p)
        \/ inlineFindAgain(p)
        \/ inlineRenderUpload(p)
        \/ inlineDeliverStatus(p)
        \/ inlineDeliverError(p)
        \/ inlineFailStatus(p)
        \/ inlineFailError(p)
        \/ handlerWorker(p)
        \/ workerRead(p)
        \/ workerClaim(p)
        \/ workerRender(p)
        \/ workerEmail(p)
        \/ workerDeliver(p)
        \/ workerFail(p)
        \/ Return(p)

Spec == Init /\ [][Next]_vars
SpecOverlap == InitOverlap /\ [][Next]_vars
SpecFaults == InitFaults /\ [][Next]_vars
SpecQueued == InitQueued /\ [][Next]_vars
SpecInUse == InitInUse /\ [][Next]_vars

\* ------------------------------------------------ the worker on a schedule
\* The limits a scheduled worker request carries: absent or a number.
CronLimits == {q \in LimitInputs : IsNumber(q)}

\* The queue intake and the worker over an empty store, one invocation at a
\* time, spreadsheet calls may fail.
InitLive ==
    /\ rows = <<Header>>
    /\ orders = <<>>
    /\ deployed = "queue"
    /\ inv = [p \in Procs |-> Idle]
    /\ started = 0
    /\ overlap = FALSE
    /\ faults = TRUE
    /\ call = NoCall

\* handler of the worker as the schedule invokes it, again and again: the
\* request is authorized (the scheduler sends the configured secret) and
\* carries no dry parameter; it goes on to readAllRows.
cronWorker(p) ==
    /\ \A r \in Procs : inv[r].kind = "idle"
    /\ \E q \in CronLimits, secret \in CronSecrets :
         /\ Authorized(secret, IF secret = "" THEN "" ELSE "Bearer " \o secret)
         /\ inv' = [inv EXCEPT ![p] =
                       [Idle EXCEPT !.kind = "worker", !.pc = "w_read",
                                    !.q = q, !.len0 = Len(rows)]]
    /\ UNCHANGED <<rows, orders, deployed, overlap, faults, call, started>>

\* A step of an invocation that has started: a call of its returns.
StepLive(p) ==
    \/ queueRead(p)
    \/ queueAppend(p)
    \/ workerRead(p)
    \/ workerClaim(p)
    \/ workerRender(p)
    \/ workerEmail(p)
    \/ workerDeliver(p)
    \/ workerFail(p)
    \/ Return(p)

\* readAllRows answered and the run, not a dry one, goes into its batch.
workerReadsBatch(p) == workerRead(p) /\ inv'[p].pc = "w_claim"

NextLive ==
    \E p \in Procs :
        \/ handlerQueue(p)
        \/ cronWorker(p)
        \/ StepLive(p)

\* Every call returns, the schedule keeps invoking the worker, and of the
\* runs that find queued rows, some read the store and process their batch.
FairLive ==
    /\ \A p \in Procs : WF_vars(StepLive(p))
    /\ WF_vars(\E p \in Procs : cronWorker(p))
    /\ \A p \in Procs : SF_vars(workerReadsBatch(p))

SpecLive == InitLive /\ [][NextLive]_vars /\ FairLive

\* ------------------------------------------------- helpers on their own
\* A JavaScript value that is truthy: not undefined and not "".
Truthy(s) == s \notin {Undefined, ""}

\* session.metadata?.chinese_name || "小明" (here "XiaoMing") and
\* session.metadata?.english_name || "Michael": what the handler passes.
HandlerName(which, n) ==
    IF Truthy(n) THEN n
    ELSE IF which = "cn" THEN "XiaoMing" ELSE "Michael"

\* The placeholder of a generator: "测试中文" (here "CeShiZhongWen") and
\* "Test English", "测试" (here "CeShi") and "Test", or "MICHAEL".
Placeholder(g, which) ==
    CASE g = "part_001:167" -> "MICHAEL"
      [] g \in {"part_002:150", "part_003:430"} ->
             (IF which = "cn" THEN "CeShiZhongWen" ELSE "Test English")
      [] OTHER -> (IF which = "cn" THEN "CeShi" ELSE "Test")

\* The generators that draw the Chinese name; the others draw the English
\* name only.
DrawsCn(g) == g \in {"part_002:150", "part_003:430", "part_003:438"}

\* The text generateNamePNG draws for the name n it was passed.
\*   part_001:167  (n && n.trim()) ? n : "MICHAEL"
\*   part_002:150, part_003:117, part_003:430
\*                 (n && n.trim()) ? n.trim() : placeholder
\*   part_003:438  (n || placeholder).trim()
DrawnText(g, which, n) ==
    CASE g = "part_001:167" ->
             (IF Truthy(n) /\ Truthy(Trim(n)) THEN n ELSE Placeholder(g, which))
      [] g = "part_003:438" ->
             Trim(IF Truthy(n) THEN n ELSE Placeholder(g, which))
      [] OTHER ->
             (IF Truthy(n) /\ Truthy(Trim(n)) THEN Trim(n)
              ELSE Placeholder(g, which))

\* The calls of generateNamePNG, one per generator and pair of names.
RenderCalls ==
    {[NoCall EXCEPT !.fn = "generateNamePNG", !.gen = g, !.cn = c, !.en = e] :
        g \in Generators, c \in NameInputs, e \in NameInputs}

\* The columns A of at most n rows after the header; values.get answers
\* no values at all for an empty sheet.
RECURSIVE ColumnsA(_)
ColumnsA(n) ==
    IF n = 0 THEN {<<>>} \cup {<<[sid |-> h]>> : h \in {"session_id", "cs_1"}}
    ELSE ColumnsA(n - 1)
         \cup {Append(v, [sid |-> c]) :
                  v \in {w \in ColumnsA(n - 1) : Len(w) = n},
                  c \in ColumnACells}

\* The calls of findRowIndexBySessionId, one per column A and session id.
FindCalls ==
    {[NoCall EXCEPT !.fn = "findRowIndexBySessionId", !.values = v,
                    !.sessionId = s] :
        v \in ColumnsA(MaxFindRows), s \in FindIds}

InitCalls ==
    /\ rows = <<Header>>
    /\ orders = <<>>
    /\ deployed = "inline"
    /\ inv = [p \in Procs |-> Idle]
    /\ started = 0
    /\ overlap = FALSE
    /\ faults = FALSE
    /\ call \in RenderCalls \cup FindCalls

\* The handler reads the names from the metadata and generateNamePNG draws
\* them ("-" for a name the generator does not draw).
generateNamePNG ==
    /\ call.fn = "generateNamePNG"
    /\ ~call.done
    /\ call' = [call EXCEPT
                   !.done = TRUE,
                   !.drawnEn = DrawnText(call.gen, "en",
                                         HandlerName("en", call.en)),
                   !.drawnCn = IF DrawsCn(call.gen)
                               THEN DrawnText(call.gen, "cn",
                                              HandlerName("cn", call.cn))
                               ELSE "-"]
    /\ UNCHANGED <<rows, orders, deployed, overlap, faults, inv, started>>

\* findRowIndexBySessionId on the column A read; rowIndex 0 stands for null.
callFindRowIndex ==
    /\ call.fn = "findRowIndexBySessionId"
    /\ ~call.done
    /\ call' = [call EXCEPT
                   !.done = TRUE,
                   !.rowIndex = findRowIndexBySessionId(call.values,
                                                        call.sessionId)]
    /\ UNCHANGED <<rows, orders, deployed, overlap, faults, inv, started>>

NextCalls == generateNamePNG \/ callFindRowIndex

SpecCalls == InitCalls /\ [][NextCalls]_vars

\* ================================================================ claims
\* An intake invocation that carries a validly signed completed checkout.
SignedCheckout(l) ==
    /\ l.kind = "webhook"
    /\ l.ev.sig = "ok"
    /\ l.ev.type = COMPLETED

\* The event passes the queue intake's own filters: an id, an email, and a
\* payment status that is absent or "paid".
Enqueueable(e) ==
    /\ e.sid # ""
    /\ e.email # ""
    /\ e.pay \in {"", "paid"}

\* What C1 promises of a returned invocation.
OneRowAdded(l) ==
    /\ Len(rows) = l.len0 + 1
    /\ rows[Len(rows)].sid = l.ev.sid
    /\ rows[Len(rows)].email = l.ev.email
    /\ l.made = (IF deployed = "queue" THEN "queued" ELSE "processing")

C2_NoRegenerationOnceDelivered ==
    \A p \in Procs :
        (SignedCheckout(inv[p]) /\ inv[p].st0 = "delivered")
        => (inv[p].rendered = 0 /\ inv[p].uploaded = 0)

\* C3: an intake request (a POST) whose signature header is absent or does
\* not verify is answered 400 at once and writes nothing to a store,
\* renders nothing and uploads nothing.
C3_UnsignedRejected ==
    \A p \in Procs :
        (/\ inv[p].kind = "webhook"
         /\ inv[p].method = "POST"
         /\ inv[p].ev.sig # "ok")
        => /\ inv[p].pc = "done"
           /\ inv[p].resp = 400
           /\ inv[p].wrote = 0
           /\ inv[p].rendered = 0
           /\ inv[p].uploaded = 0

\* C4: the step in which an intake handler takes a verified event of a type
\* other than checkout.session.completed ends the invocation with 200 and
\* leaves both sheets as they were: no row appended, no cell written.
C4_OtherEventIgnored ==
    [][\A p \in Procs :
          (/\ inv[p].kind = "idle"
           /\ inv'[p].kind = "webhook"
           /\ inv'[p].ev.sig = "ok"
           /\ inv'[p].ev.type # COMPLETED)
          => /\ inv'[p].pc = "done"
             /\ inv'[p].resp = 200
             /\ inv'[p].wrote = 0
             /\ rows' = rows
             /\ orders' = orders]_vars

\* C4's case: an inline handler has answered a verified event of another
\* type while the store held an order.
C4_Witness ==
    \E p \in Procs :
        /\ inv[p].kind = "webhook"
        /\ inv[p].ev.sig = "ok"
        /\ inv[p].ev.type # COMPLETED
        /\ inv[p].pc = "done"
        /\ deployed = "inline"
        /\ Len(rows) > 1

\* The row of the order store at sheet row i is a delivered order: status
\* "delivered", a png_url, no error.
DeliveredRow(i) ==
    /\ i \in 2..Len(rows)
    /\ rows[i].status = "delivered"
    /\ rows[i].png # ""
    /\ rows[i].error = ""

\* C5: once a fulfilment step whose render and upload both succeeded has
\* completed (an inline handler has returned, a worker job has been
\* reported), the order's row is "delivered" with a png_url and no error.
C5_SuccessDelivered ==
    \A p \in Procs :
        /\ (/\ inv[p].kind = "webhook"
            /\ inv[p].pc = "done"
            /\ inv[p].uploaded > 0
            /\ inv[p].png # "")
           => DeliveredRow(OrderRow(inv[p].ev.sid))
        /\ inv[p].kind = "worker"
           => \A k \in 1..Len(inv[p].results) :
                  inv[p].results[k].url # ""
                  => DeliveredRow(inv[p].results[k].rowIndex)

\* The row at sheet row i is a failed order: status "failed", an error
\* text, no png_url.
FailedRow(i) ==
    /\ i \in 2..Len(rows)
    /\ rows[i].status = "failed"
    /\ rows[i].error # ""
    /\ rows[i].png = ""

RendererErrors == {"Renderer failed", "Renderer returned empty pngUrl"}

\* C6: a render failure is caught: the inline handler whose
\* generateNamePNG threw (missing font or any other error) does not end
\* without a response, and once it has returned it has answered and the
\* order's row is "failed" with an error text and no png_url; a worker job
\* whose renderer call failed or returned no URL leaves its row the same
\* way, and the worker answers.
C6_RenderFailureRecorded ==
    \A p \in Procs :
        /\ (/\ inv[p].kind = "webhook"
            /\ inv[p].rendered > 0
            /\ inv[p].uploaded = 0)
           => /\ inv[p].pc # "crashed"
              /\ inv[p].pc = "done"
                 => /\ inv[p].resp = 500
                    /\ FailedRow(OrderRow(inv[p].ev.sid))
        /\ inv[p].kind = "worker"
           => /\ inv[p].pc # "crashed"
              /\ inv[p].pc = "done" => inv[p].resp # 0
              /\ \A k \in 1..Len(inv[p].results) :
                     inv[p].results[k].error \in RendererErrors
                     => FailedRow(inv[p].results[k].rowIndex)

\* C6's case: an inline handler has returned after generateNamePNG threw an
\* error without a message.
C6_Witness ==
    \E p \in Procs :
        /\ inv[p].kind = "webhook"
        /\ inv[p].pc = "done"
        /\ inv[p].rendered > 0
        /\ inv[p].uploaded = 0
        /\ inv[p].err = ""
        /\ FailedRow(OrderRow(inv[p].ev.sid))

\* C7: no step changes the status of a row that is "delivered".
C7_DeliveredTerminal ==
    [][\A i \in 2..Len(rows) :
          rows[i].status = "delivered" => rows'[i].status = "delivered"]_vars

\* C8 as stated: an intake handler that has returned from a validly signed
\* completed checkout whose order had a row that was not "delivered" has
\* gone on to fulfilment.
C8_ExistingRowReprocessed ==
    \A p \in Procs :
        (/\ SignedCheckout(inv[p])
         /\ inv[p].pc = "done"
         /\ deployed = "queue" => Enqueueable(inv[p].ev)
         /\ inv[p].st0 \in {"queued", "processing", "failed"})
        => inv[p].rendered > 0

\* The invocation is past its reset of the row and has not rendered yet.
AfterReset(l) == l.pc \in {"find2", "render"} /\ l.rendered = 0

\* The row of the invocation's order is in progress, with no error.
InProgress(l) ==
    /\ OrderRow(l.ev.sid) # 0
    /\ rows[OrderRow(l.ev.sid)].status = "processing"
    /\ rows[OrderRow(l.ev.sid)].error = ""

\* C8 amended: for a validly signed completed checkout whose order already
\* has a row, the inline variant acknowledges with 200 and writes and
\* renders nothing when the row is "delivered" or "processing", and
\* otherwise resets the row to "processing" with an empty error and goes on
\* to render; the debug variants reset and render whatever the status; the
\* queue intake never resets: it writes and renders nothing and answers 200.
C8_ResetUnlessSkipped ==
    \A p \in Procs :
        (SignedCheckout(inv[p]) /\ inv[p].st0 # "none")
        => /\ (deployed = "inline" /\ inv[p].st0 \in {"delivered", "processing"})
              => /\ inv[p].wrote = 0
                 /\ inv[p].rendered = 0
                 /\ inv[p].pc = "done" => inv[p].resp = 200
           /\ (\/ deployed = "debug"
               \/ deployed = "inline" /\ inv[p].st0 \in {"queued", "failed"})
              => /\ AfterReset(inv[p]) => InProgress(inv[p])
                 /\ inv[p].pc = "done" => inv[p].rendered > 0
           /\ deployed = "queue"
              => /\ inv[p].wrote = 0
                 /\ inv[p].rendered = 0
                 /\ inv[p].pc = "done" => inv[p].resp = 200

\* C8's case: the inline variant has acknowledged a delivery for an order
\* whose row was "processing", without a write.
C8_Witness ==
    \E p \in Procs :
        /\ SignedCheckout(inv[p])
        /\ deployed = "inline"
        /\ inv[p].st0 = "processing"
        /\ inv[p].pc = "done"
        /\ inv[p].resp = 200
        /\ inv[p].wrote = 0

\* C9: no two rows of a sheet hold the same session id.
C9_SessionIdUnique ==
    /\ \A i, j \in 2..Len(rows) :
           (i # j /\ rows[i].sid # "") => rows[i].sid # rows[j].sid
    /\ \A i, j \in 1..Len(orders) :
           (i # j /\ orders[i] # "") => orders[i] # orders[j]

\* C10: the order store holds two rows for one session id only through the
\* race between check and write: the invocation that appended the later row
\* had looked the id up before the earlier row was in the sheet.
C10_DuplicatesOnlyByRace ==
    \A i, j \in 2..Len(rows) :
        (i < j /\ rows[i].sid = rows[j].sid) => rows[j].seen < i

\* C10's case, under the inline variant with its skip-if-delivered check:
\* two overlapping deliveries of one session id both found no row, the store
\* holds two rows for the id, and both have rendered and uploaded the image.
C10_RaceReached ==
    /\ deployed = "inline"
    /\ \E p, q \in Procs :
          /\ p # q
          /\ SignedCheckout(inv[p])
          /\ SignedCheckout(inv[q])
          /\ inv[p].ev.sid = inv[q].ev.sid
          /\ inv[p].st0 = "none"
          /\ inv[q].st0 = "none"
          /\ inv[p].png # ""
          /\ inv[q].png # ""
          /\ Cardinality(OrderRows(inv[p].ev.sid)) = 2

\* The rows two worker invocations have both rendered and mailed: entries
\* of their results for one row, each with the renderer's URL and the
\* email sent.
Fulfilled(l) ==
    {l.results[k].rowIndex : k \in {n \in 1..Len(l.results) :
        l.results[n].url # "" /\ l.results[n].mailed}}

\* C11: the worker picks a row only if no worker had marked it
\* "processing" when it read the sheet: a row is claimed by two worker
\* invocations only when both read it as "queued" before either marked it.
C11_DoubleClaimOnlyByRace ==
    \A p \in Procs :
        inv[p].kind = "worker"
        => \A k \in 1..Len(inv[p].picked) : inv[p].picked[k].claims0 = 0

\* C11's case: two overlapping worker invocations have both called the
\* renderer and both sent the delivery email for one row, which two workers
\* have marked "processing".
C11_Witness ==
    \E p, q \in Procs :
        /\ p # q
        /\ inv[p].kind = "worker"
        /\ inv[q].kind = "worker"
        /\ \E i \in Fulfilled(inv[p]) \cap Fulfilled(inv[q]) :
              /\ rows[i].claims = 2
              /\ inv[p].rendered > 0
              /\ inv[q].rendered > 0

\* C12: every response of an intake handler to a delivery (a POST) is 200
\* or 400, and 400 only when the signature header is absent or does not
\* verify.
C12_ResponseContract ==
    \A p \in Procs :
        (/\ inv[p].kind = "webhook"
         /\ inv[p].method = "POST"
         /\ inv[p].pc = "done")
        => /\ inv[p].resp \in {200, 400}
           /\ inv[p].resp = 400 => ~Verified(inv[p].ev)

\* C13: no step removes a row of a sheet, and no step changes the
\* session_id, email or created_at of a row the sheet holds.
C13_RowsKept ==
    [][/\ Len(rows') >= Len(rows)
       /\ \A i \in 1..Len(rows) :
             /\ rows'[i].sid = rows[i].sid
             /\ rows'[i].email = rows[i].email
             /\ rows'[i].created = rows[i].created
       /\ Len(orders') >= Len(orders)
       /\ \A i \in 1..Len(orders) : orders'[i] = orders[i]]_vars

\* C13's case: a worker has updated all four cells of an order's row (it
\* is "delivered" with a png_url) and the row still holds the order's
\* session id and email.
C13_Witness ==
    \E i \in 2..Len(rows) :
        /\ rows[i].claims > 0
        /\ rows[i].status = "delivered"
        /\ rows[i].png # ""
        /\ rows[i].sid \in SessionIds
        /\ rows[i].email = EmailOf(rows[i].sid)
        /\ rows[i].created > 0

\* The rows a retrying worker would take: those with an id and an email
\* that are "queued", or "failed" after a worker had claimed them.
Retryable(i) ==
    /\ Trim(rows[i].sid) # ""
    /\ Trim(rows[i].email) # ""
    /\ \/ normStatus(rows[i].status) = "queued"
       \/ normStatus(rows[i].status) = "failed" /\ rows[i].claims > 0

\* C14: a worker invocation that has read the sheet picks every row that is
\* "queued", or was left "failed" by a worker, in row order, up to its batch
\* limit.
C14_FailedPickedUp ==
    [][\A p \in Procs :
          (/\ inv[p].pc = "w_read"
           /\ inv'[p].pc \in {"w_claim", "done"}
           /\ inv'[p].resp # 500
           /\ IsNumber(inv[p].q))
          => \A i \in 2..Len(rows) :
                (/\ Retryable(i)
                 /\ Cardinality({j \in 2..(i - 1) : Retryable(j)})
                        < Limit(inv[p].q))
                => \E k \in 1..Len(inv'[p].picked) :
                       inv'[p].picked[k].rowIndex = i]_vars

\* C15: whatever the limit parameter, a worker invocation that has read the
\* sheet takes the first queued rows in row order, at least one when a
\* queued row exists, at most 10, and at most 3 when the parameter is
\* absent.
C15_BoundedBatch ==
    [][\A p \in Procs :
          (/\ inv[p].pc = "w_read"
           /\ inv'[p].pc \in {"w_claim", "done"}
           /\ inv'[p].resp # 500)
          => LET queued == QueuedFrom(rows, 2)
                 n == Len(inv'[p].picked)
             IN  /\ queued # <<>> => n >= 1
                 /\ n <= 10
                 /\ n <= Len(queued)
                 /\ inv'[p].picked = SubSeq(queued, 1, n)
                 /\ inv[p].q = "absent" => n = Min(3, Len(queued))]_vars

\* C16: a worker request whose authorization header is not exactly
\* "Bearer <CRON_SECRET>", with CRON_SECRET configured, is answered 401 by
\* the step that starts it, which leaves both sheets unchanged; the
\* invocation has read nothing, written nothing, called no renderer and
\* sent no email.
C16_BearerGate ==
    [][\A p \in Procs :
          (/\ inv'[p].kind = "worker"
           /\ inv'[p].secret # ""
           /\ inv'[p].auth # "Bearer " \o inv'[p].secret)
          => /\ inv'[p].pc = "done"
             /\ inv'[p].resp = 401
             /\ inv'[p].picked = <<>>
             /\ inv'[p].wrote = 0
             /\ inv'[p].rendered = 0
             /\ ~inv'[p].mailed
             /\ inv'[p].results = <<>>
             /\ inv'[p] # inv[p] => (rows' = rows /\ orders' = orders)]_vars

\* C16's case: a queued row is waiting and a worker request that carries
\* another bearer token has been answered 401.
C16_Witness ==
    \E p \in Procs :
        /\ inv[p].kind = "worker"
        /\ inv[p].secret = "s3cret"
        /\ inv[p].auth = "Bearer other"
        /\ inv[p].resp = 401
        /\ \E i \in 2..Len(rows) : rows[i].status = "queued"

\* C17: no worker invocation is left waiting for a renderer that never
\* answers: the call is abandoned, so no invocation stays at the renderer
\* call with its row "processing" and no response.
C17_RendererCallBounded ==
    \A p \in Procs : inv[p].pc # "w_hung"

\* C18: an intake handler that keeps the order store and has returned from
\* a validly signed completed checkout without a session id or without a
\* customer email has answered 200 and written no row.
C18_MissingFieldTolerated ==
    \A p \in Procs :
        (/\ SignedCheckout(inv[p])
         /\ deployed \in {"queue", "inline", "debug"}
         /\ inv[p].pc = "done"
         /\ norm(inv[p].ev.sid) = "" \/ norm(inv[p].ev.email) = "")
        => /\ inv[p].resp = 200
           /\ inv[p].wrote = 0
           /\ Len(rows) = inv[p].len0

\* The put() of the invocation was called and threw.
UploadFailed(l) ==
    /\ l.kind = "webhook"
    /\ l.uploaded = 1
    /\ l.png = ""

\* C19: an inline handler calls put() at most once; when put() threw, the
\* handler is in its catch or has returned, and once it has returned it has
\* answered 500 and the order's row is "failed" with the thrown message in
\* its error cell.
C19_UploadOnce ==
    \A p \in Procs :
        /\ inv[p].kind = "webhook" => inv[p].uploaded <= 1
        /\ UploadFailed(inv[p])
           => /\ inv[p].pc \in {"fail_C", "fail_F", "done"}
              /\ inv[p].pc = "done"
                 => /\ inv[p].resp = 500
                    /\ FailedRow(OrderRow(inv[p].ev.sid))
                    /\ inv[p].err # ""
                    /\ rows[OrderRow(inv[p].ev.sid)].error = inv[p].err

\* C19's case: a handler has returned after its one put() threw.
C19_Witness ==
    \E p \in Procs :
        /\ UploadFailed(inv[p])
        /\ inv[p].pc = "done"
        /\ inv[p].rendered = 1
        /\ rows[OrderRow(inv[p].ev.sid)].status = "failed"
        /\ rows[OrderRow(inv[p].ev.sid)].error = "blob put failed"

\* C20: an inline handler that received a validly signed completed checkout
\* for an order whose row was "failed" has the row "processing" with an
\* empty error before it renders, does render, and, when render and upload
\* succeeded, has answered 200 with the row "delivered" and its error
\* empty.
C20_ReentryFromFailed ==
    \A p \in Procs :
        (/\ SignedCheckout(inv[p])
         /\ deployed \in {"inline", "debug"}
         /\ inv[p].st0 = "failed")
        => /\ AfterReset(inv[p]) => InProgress(inv[p])
           /\ inv[p].pc = "done" => inv[p].rendered > 0
           /\ (inv[p].pc = "done" /\ inv[p].png # "")
              => /\ inv[p].resp = 200
                 /\ rows[OrderRow(inv[p].ev.sid)].status = "delivered"
                 /\ rows[OrderRow(inv[p].ev.sid)].error = ""

\* C20's case: the inline variant has delivered on a redelivery an order
\* whose row was "failed".
C20_Witness ==
    \E p \in Procs :
        /\ SignedCheckout(inv[p])
        /\ deployed = "inline"
        /\ inv[p].st0 = "failed"
        /\ inv[p].pc = "done"
        /\ inv[p].resp = 200
        /\ inv[p].png # ""
        /\ rows[OrderRow(inv[p].ev.sid)].status = "delivered"
        /\ rows[OrderRow(inv[p].ev.sid)].error = ""

\* The name input has content other than whitespace.
HasContent(n) == n # Undefined /\ Trim(n) # ""

\* The placeholder texts of the handlers and generators.
Placeholders ==
    {"XiaoMing", "Michael", "MICHAEL", "CeShiZhongWen", "Test English",
     "CeShi", "Test"}

\* What C21 asks of the text drawn for the name input n.
FallsBack(n, drawn) ==
    /\ drawn # ""
    /\ HasContent(n) => drawn = Trim(n)
    /\ ~HasContent(n) => drawn \in Placeholders

\* C21: for every name input the text drawn for each name is non-empty,
\* the trimmed input when it has content and a placeholder otherwise.
C21_PlaceholderFallback ==
    (call.fn = "generateNamePNG" /\ call.done)
    => /\ FallsBack(call.en, call.drawnEn)
       /\ DrawsCn(call.gen) => FallsBack(call.cn, call.drawnCn)

\* The worker invocations.
Workers == {p \in Procs : inv[p].kind = "worker"}

\* The order of the steps of the job a worker is in: the renderer is
\* called, the email sent and "delivered" written only with the row
\* written "processing"; the email only with the renderer's URL; and
\* "delivered" only with the email sent.
JobInOrder(l) ==
    /\ l.pc \in {"w_render", "w_hung", "w_email", "w_deliver"}
         => l.claimed /\ rows[Job(l).rowIndex].status = "processing"
    /\ l.pc \in {"w_email", "w_deliver"} => l.png # ""
    /\ l.pc = "w_deliver" => l.mailed
    /\ l.mailed => l.png # ""

\* The finished jobs of a worker: a job reported ok had its row written
\* "processing", the renderer's URL and its email sent.
ResultsInOrder(l) ==
    \A k \in 1..Len(l.results) :
        /\ l.results[k].ok
             => l.results[k].claimed /\ l.results[k].url # ""
                /\ l.results[k].mailed
        /\ l.results[k].mailed => l.results[k].url # ""
        /\ l.results[k].url # "" => l.results[k].claimed

\* The finished jobs whose row the worker left "delivered" or "failed"
\* without having written it "processing".
Unclaimed(l) ==
    {k \in 1..Len(l.results) :
        /\ ~l.results[k].claimed
        /\ rows[l.results[k].rowIndex].status \in {"delivered", "failed"}}

ScannedQueued(l) ==
    {l.picked[k].rowIndex : k \in
        {h \in 1..Len(l.picked) :
            /\ l.picked[h].rowIndex > 1
            /\ l.picked[h].sessionId # ""
            /\ l.picked[h].email # ""
            /\ normStatus(l.picked[h].status0) = "queued"}}

\* C23: a step of a worker invocation adds no row, and changes only rows
\* that its scan read with an id, an email and status "queued"; the header
\* and the rows it scanned with another status stay as they are.
C23_WritesOnlyScannedQueued ==
    [][\A p \in Procs :
         (inv[p].kind = "worker" /\ inv'[p] # inv[p])
         => /\ Len(rows') = Len(rows)
            /\ rows'[1] = rows[1]
            /\ \A i \in 1..Len(rows) :
                 rows'[i] # rows[i] => i \in ScannedQueued(inv[p])]_vars

\* A worker has written to a row it picked while the store holds a row that
\* was not "queued" when scanned and is not among its picked rows.
C23_Witness ==
    \E p \in Workers :
        /\ inv[p].wrote > 0
        /\ \E i \in 2..Len(rows) :
             /\ rows[i].status \in {"processing", "delivered", "failed"}
             /\ \A k \in 1..Len(inv[p].picked) :
                  inv[p].picked[k].rowIndex # i

\* C24: a worker that has entered its batch loop has counted each job it
\* has finished exactly once, as processed or as failed, in the order of
\* the rows picked, whatever failed in the jobs before; it does not end in
\* an uncaught error, and when it has answered, it has answered 200 with
\* processed + failed equal to the number of rows picked.
C24_JobsIsolated ==
    \A p \in Workers :
        inv[p].job > 0
        => /\ inv[p].processed + inv[p].failed = Len(inv[p].results)
           /\ Len(inv[p].results) <= Len(inv[p].picked)
           /\ \A k \in 1..Len(inv[p].results) :
                inv[p].results[k].rowIndex = inv[p].picked[k].rowIndex
           /\ inv[p].processed
                = Cardinality({k \in 1..Len(inv[p].results) :
                                  inv[p].results[k].ok})
           /\ inv[p].pc \in {"w_claim", "w_render", "w_email", "w_deliver",
                             "w_fail", "w_hung"}
                => Len(inv[p].results) = inv[p].job - 1
           /\ inv[p].pc # "crashed"
           /\ inv[p].pc = "done"
                => /\ inv[p].resp = 200
                   /\ inv[p].processed + inv[p].failed = Len(inv[p].picked)

\* A worker has answered for a batch of two rows whose first job failed and
\* whose second job was delivered.
C24_Witness ==
    \E p \in Workers :
        /\ inv[p].pc = "done"
        /\ Len(inv[p].picked) = 2
        /\ Len(inv[p].results) = 2
        /\ ~inv[p].results[1].ok
        /\ inv[p].results[2].ok
        /\ rows[inv[p].picked[2].rowIndex].status = "delivered"

\* The rows of the store a worker would process: after the header, with an
\* id, an email and status "queued".
QueuedRows ==
    {i \in 2..Len(rows) :
        /\ Trim(rows[i].sid) # "" /\ Trim(rows[i].email) # ""
        /\ normStatus(rows[i].status) = "queued"}

\* C25: a step of a worker invocation called with dry=1 leaves the store as
\* it is, and the invocation calls no renderer and sends no email; once it
\* has read the store it has answered 200, and the rows it lists are queued
\* rows of the store, the first ones in row order.
C25_DryRunReadOnly ==
    [][\A p \in Procs :
         (inv'[p].kind = "worker" /\ inv'[p].dry /\ inv'[p] # inv[p])
         => /\ rows' = rows
            /\ orders' = orders
            /\ inv'[p].pc = "done" /\ inv'[p].resp = 200
            /\ inv'[p].wrote = 0 /\ inv'[p].rendered = 0
            /\ ~inv'[p].mailed
            /\ inv'[p].results = <<>>
            /\ \A k \in 1..Len(inv'[p].picked) :
                 /\ inv'[p].picked[k].rowIndex \in QueuedRows
                 /\ Cardinality({i \in QueuedRows :
                                    i < inv'[p].picked[k].rowIndex}) = k - 1
                 /\ rows'[inv'[p].picked[k].rowIndex].status = "queued"]_vars

\* A dry run has answered with a row it would process, and the row is
\* still queued.
C25_Witness ==
    \E p \in Workers :
        /\ inv[p].dry
        /\ inv[p].pc = "done"
        /\ inv[p].picked # <<>>
        /\ rows[inv[p].picked[1].rowIndex].status = "queued"

\* C26: a queue intake invocation that has returned from a validly signed
\* completed checkout has appended a row only when the session's
\* payment_status is "paid"; for every other payment_status, absent and
\* empty included, it has answered 200 and appended nothing.
C26_OnlyPaidEnqueued ==
    \A p \in Procs :
        (deployed = "queue" /\ SignedCheckout(inv[p]) /\ inv[p].pc = "done")
        => /\ Len(rows) > inv[p].len0 => inv[p].ev.pay = "paid"
           /\ inv[p].ev.pay # "paid"
                => inv[p].resp = 200 /\ Len(rows) = inv[p].len0

\* The first cell of row i of the column A looked up, trimmed, is the id
\* looked for.
Hit(i) == Trim(call.values[i].sid) = call.sessionId

\* C27: findRowIndexBySessionId has returned the first row after the
\* header whose trimmed first cell is the session id, as a sheet row
\* number, and null (0) when there is no such row; never the header row.
C27_FirstMatchAfterHeader ==
    (call.fn = "findRowIndexBySessionId" /\ call.done)
    => /\ call.rowIndex # 1
       /\ IF \E i \in 2..Len(call.values) : Hit(i)
          THEN /\ call.rowIndex \in 2..Len(call.values)
               /\ Hit(call.rowIndex)
               /\ \A j \in 2..(call.rowIndex - 1) : ~Hit(j)
          ELSE call.rowIndex = 0

\* A lookup whose id is the header's own first cell and also the trimmed
\* first cell of two later rows has returned the first of the two.
C27_Witness ==
    /\ call.fn = "findRowIndexBySessionId"
    /\ call.done
    /\ Len(call.values) = 4
    /\ call.values[1].sid = call.sessionId
    /\ ~Hit(2) /\ Hit(3) /\ Hit(4)
    /\ call.values[3].sid # call.sessionId
    /\ call.rowIndex = 3

\* C28: an intake invocation for a request that is not a POST has answered
\* at once, 405 (the probe: 200 to a GET), with nothing of the request read
\* (no body, no signature) and no store read or written.
C28_MethodGate ==
    \A p \in Procs :
        (inv[p].kind = "webhook" /\ inv[p].method # "POST")
        => /\ inv[p].pc = "done"
           /\ inv[p].resp = IF deployed = "probe" /\ inv[p].method = "GET"
                            THEN 200 ELSE 405
           /\ inv[p].ev = NoEvent
           /\ inv[p].saw = 0
           /\ inv[p].wrote = 0
           /\ Len(rows) = inv[p].len0

\* The delivery emails the workers have sent for session id s: the sum
\* over the rows that hold s.
RECURSIVE MailsFrom(_, _)
MailsFrom(i, s) ==
    IF i > Len(rows) THEN 0
    ELSE (IF Trim(rows[i].sid) = s THEN rows[i].mails ELSE 0)
         + MailsFrom(i + 1, s)

\* C29: with the queue intake and the worker, one invocation at a time, at
\* most one delivery email has been sent for each session id, whatever
\* store write, renderer call or email call failed.
C29_OneEmailPerSession ==
    deployed = "queue" => \A s \in SessionIds : MailsFrom(2, s) <= 1

\* A third invocation, a worker run that found nothing to pick, has
\* answered while the only order of the store is "failed" with its email
\* sent: the update to "delivered" threw after the email.
C29_Witness ==
    /\ deployed = "queue"
    /\ started = 3
    /\ Len(rows) = 2
    /\ rows[2].status = "failed"
    /\ rows[2].mails = 1
    /\ \E p \in Workers :
         /\ inv[p].pc = "done"
         /\ inv[p].resp = 200
         /\ inv[p].job = 0

\* No invocation is between two of its calls: each slot is free or has
\* answered.
Quiescent == \A p \in Procs : inv[p].pc \in {"idle", "done"}

\* C30: with overlapping inline handlers for one session id, no quiescent
\* state has a row whose status is "delivered" and whose error cell is not
\* empty.
C30_NoDeliveredWithError ==
    (deployed \in {"inline", "debug"} /\ Quiescent)
    => \A i \in 2..Len(rows) :
           rows[i].status = "delivered" => rows[i].error = ""

\* The session id an invocation is working for: the id of the job of a
\* worker, the id of the event of an intake handler.
OnBehalfOf(l) ==
    IF l.kind = "worker" THEN Job(l).sessionId ELSE norm(l.ev.sid)

\* The status, error or png_url cell of row i changes in the step.
CellsWritten(i) ==
    \/ rows'[i].status # rows[i].status
    \/ rows'[i].error # rows[i].error
    \/ rows'[i].png # rows[i].png

\* C31: a step of an invocation that writes a status, error or png_url
\* cell of a row writes a row after the header whose first cell is the
\* session id the invocation is working for, whatever other invocations
\* have appended since the row number was read.
C31_WritesLandOnOwnRow ==
    [][\A p \in Procs :
         inv'[p] # inv[p]
         => \A i \in 1..Len(rows) :
                CellsWritten(i)
                => /\ i > 1
                   /\ Trim(rows[i].sid) = OnBehalfOf(inv[p])
                   /\ rows'[i].sid = rows[i].sid]_vars

\* A worker has written the row of its job while the sheet has grown by
\* another order's row since the worker was invoked.
C31_Witness ==
    \E p \in Workers :
        /\ inv[p].job > 0
        /\ inv[p].wrote > 0
        /\ Len(rows) > inv[p].len0
        /\ rows[Job(inv[p]).rowIndex].sid = Job(inv[p]).sessionId
        /\ rows[Len(rows)].sid # Job(inv[p]).sessionId

\* The values of the status column.
Statuses == {"queued", "processing", "delivered", "failed"}

\* C32: before and after every step each row after the header holds one of
\* the four statuses, and a step that changes the status of a row the
\* sheet already holds does not change it to "queued": "queued" comes with
\* the append that creates the row.
C32_StatusEnum ==
    [][/\ \A i \in 2..Len(rows) : rows[i].status \in Statuses
       /\ \A i \in 2..Len(rows') : rows'[i].status \in Statuses
       /\ \A i \in 1..Len(rows) :
             rows'[i].status # rows[i].status => rows'[i].status # "queued"]_vars

\* The sheet holds a row created "queued" that a worker has since written
\* "failed", next to a row that is still "queued" as it was created.
C32_Witness ==
    /\ deployed = "queue"
    /\ \E i, j \in 2..Len(rows) :
         /\ rows[i].status = "failed" /\ rows[i].claims > 0
         /\ rows[j].status = "queued" /\ rows[j].claims = 0

\* No call of the renderer is left without an answer.
EveryCallReturns == \A p \in Procs : inv[p].pc # "w_hung"

\* Row i of the sheet has reached "delivered" or "failed".
Settled(i) == Len(rows) >= i /\ rows[i].status \in {"delivered", "failed"}

\* C33: when every call returns and the worker keeps being invoked, every
\* row the queue intake has appended is eventually "delivered" or "failed".
C33_EveryRowSettles ==
    ([]EveryCallReturns)
    => \A i \in 2..(MaxInvocations + 1) : (Len(rows) >= i) ~> Settled(i)

====
